---- MODULE Spec2Model ----
(***************************************************************************)
(* Scheduling state machine of django-rq-scheduler                         *)
(* (scheduler/models/scheduled_job.py): BaseJob, ScheduledJob,             *)
(* RepeatableJob, CronJob and callback_save_job, together with the rq      *)
(* scheduled-job registry and pending queue they talk to.                  *)
(*                                                                         *)
(* One job record is followed through its life.  `db` is its stored row;   *)
(* a model instance is a value (a record of fields) that the methods take  *)
(* and return, exactly as the Python methods mutate `self`.  Every         *)
(* operation is invoked on an instance freshly loaded from `db`; only      *)
(* save(), delete() and callback_save_job write `db` back.                 *)
(*                                                                         *)
(* Time is an integer number of scheduler ticks; timezone.now() is read    *)
(* once per handler.  Datetimes are instants, so utc() does not change     *)
(* them.  rq job ids are unique among the ids still held anywhere (the     *)
(* registry, the pending queue, the stored row).                           *)
(*                                                                         *)
(* Spec is the record under the operations of the application, rq's        *)
(* scheduler and the workers, each call running to its end.  SpecStartup   *)
(* adds SchedulerConfig.ready() (scheduler/apps.py) and the Bulk           *)
(* Rescheduler; SpecFaulty adds callbacks in which a call raises; SpecRace *)
(* lets two callers step through schedule() without a lock (`calls` holds  *)
(* what each caller is doing); SpecSeries follows one repeat series to its *)
(* end under fair scheduling and counts its runs in `runs`.  Under Spec    *)
(* `calls` and `runs` stay as they start.                                  *)
(***************************************************************************)
EXTENDS Integers, FiniteSets

VARIABLES db, registry, queue, now, last, calls, runs

vars == <<db, registry, queue, now, last, calls, runs>>

(* ---------------------------------------------------------------- bounds *)
\* the clock runs from 0 to MaxTime
MaxTime == 3
\* the number of rq job ids that can be held at once
MaxId == 2
\* the largest finite repeat the application sets
MaxRepeat == 2

(* ------------------------------------------------------------- constants *)
\* interval / interval_unit of the repeatable record: its interval in ticks
IntervalTicks == 2

\* job_id is a nullable CharField: None is modelled as 0, ids count from 1.
NoJobId == 0
\* repeat is a nullable PositiveIntegerField: None is modelled as -1.
NoRepeat == -1
\* cron_string is modelled by its period: the expression fires at every
\* multiple of CronPeriod.
CronPeriod == 2

Times == 0..MaxTime
Repeats == {NoRepeat} \cup (0..MaxRepeat)

(* ------------------------------------------------------ the rq registry *)
\* An entry of the scheduled-job registry: the rq job id and the instant it
\* was enqueued for.  The pending queue holds job ids.
Entry(id, at) == [id |-> id, at |-> at]

get_job_ids(reg) == {e.id : e \in reg}

(* ------------------------------------------------------------- BaseJob *)
is_scheduled(o, reg) ==
    IF o.job_id = NoJobId THEN FALSE
    ELSE o.job_id \in get_job_ids(reg)

\* mutant: the already-scheduled check is forgotten
base_ready_for_schedule_unchecked(o, reg) == o.enabled

\* mutant: whether the record is enabled is not looked at
base_ready_for_schedule_disabled_too(o, reg) ==
    IF is_scheduled(o, reg) THEN FALSE ELSE TRUE

base_ready_for_schedule(o, reg) ==
    IF is_scheduled(o, reg) THEN FALSE
    ELSE IF ~o.enabled THEN FALSE
    ELSE TRUE

(* ------------------------------------------------------- ScheduledJob *)
\* mutant: a past scheduled_time does not block
scheduled_ready_for_schedule_anytime(o, reg, t) ==
    base_ready_for_schedule(o, reg)

scheduled_ready_for_schedule(o, reg, t) ==
    IF base_ready_for_schedule(o, reg) = FALSE THEN FALSE
    ELSE IF o.scheduled_time < t THEN FALSE
    ELSE TRUE

(* ------------------------------------------------------ RepeatableJob *)
interval_seconds(o) == o.interval

\* mutant: the quotient is rounded down
ceil_div_floor(a, b) == a \div b

\* math.ceil(a / b) for b > 0; timestamps are whole ticks, so the quotient
\* is exact
ceil_div(a, b) == -((-a) \div b)

gap_of(o, t) == ceil_div(t - o.scheduled_time, interval_seconds(o))

\* mutant: an exhausted series is advanced as far as its repeats allow
prevent_duplicate_runs_partial(o, t) ==
    IF o.scheduled_time < t
    THEN LET gap == gap_of(o, t)
             n   == IF o.repeat = NoRepeat \/ o.repeat >= gap THEN gap
                    ELSE o.repeat
         IN  [o EXCEPT !.scheduled_time = @ + interval_seconds(o) * n,
                       !.repeat = IF o.repeat # NoRepeat THEN @ - n
                                  ELSE NoRepeat]
    ELSE o

\* mutant: the repeats are not decremented
prevent_duplicate_runs_keep_repeat(o, t) ==
    IF o.scheduled_time < t
    THEN LET gap == gap_of(o, t)
         IN  IF o.repeat = NoRepeat \/ o.repeat >= gap
             THEN [o EXCEPT !.scheduled_time = @ + interval_seconds(o) * gap]
             ELSE o
    ELSE o

\* mutant: the series is advanced whatever repeats are left
prevent_duplicate_runs_unbounded(o, t) ==
    IF o.scheduled_time < t
    THEN LET gap == gap_of(o, t)
         IN  [o EXCEPT !.scheduled_time = @ + interval_seconds(o) * gap,
                       !.repeat = IF o.repeat = NoRepeat THEN NoRepeat
                                  ELSE IF o.repeat >= gap THEN @ - gap ELSE 0]
    ELSE o

\* mutant: the advancement is subtracted
prevent_duplicate_runs_backward(o, t) ==
    IF o.scheduled_time < t
    THEN LET gap == gap_of(o, t)
         IN  IF o.repeat = NoRepeat \/ o.repeat >= gap
             THEN [o EXCEPT !.scheduled_time = @ - interval_seconds(o) * gap,
                            !.repeat = IF o.repeat # NoRepeat THEN @ - gap
                                       ELSE NoRepeat]
             ELSE o
    ELSE o

\* lines 282-286: the catch-up advancement, applied to the instance
prevent_duplicate_runs(o, t) ==
    IF o.scheduled_time < t
    THEN LET gap == gap_of(o, t)
         IN  IF o.repeat = NoRepeat \/ o.repeat >= gap
             THEN [o EXCEPT !.scheduled_time = @ + interval_seconds(o) * gap,
                            !.repeat = IF o.repeat # NoRepeat THEN @ - gap
                                       ELSE NoRepeat]
             ELSE o
    ELSE o

\* mutant: the instant is not judged again after the catch-up advancement
repeatable_ready_for_schedule_no_recheck(o, reg, t) ==
    IF base_ready_for_schedule(o, reg) = FALSE
    THEN [ok |-> FALSE, obj |-> o]
    ELSE [ok |-> TRUE, obj |-> prevent_duplicate_runs(o, t)]

\* returns the verdict and the instance as the call leaves it
repeatable_ready_for_schedule(o, reg, t) ==
    IF base_ready_for_schedule(o, reg) = FALSE
    THEN [ok |-> FALSE, obj |-> o]
    ELSE LET o1 == prevent_duplicate_runs(o, t)
         IN  IF o1.scheduled_time < t
             THEN [ok |-> FALSE, obj |-> o1]
             ELSE [ok |-> TRUE, obj |-> o1]

(* ------------------------------------------------------------ CronJob *)
\* tools.get_next_cron_time: the earliest matching instant strictly after t
get_next_cron_time(t) == ((t \div CronPeriod) + 1) * CronPeriod

(* ----------------------------------------------------------- dispatch *)
ready_for_schedule(o, reg, t) ==
    CASE o.kind = "ScheduledJob" ->
            [ok |-> scheduled_ready_for_schedule(o, reg, t), obj |-> o]
      [] o.kind = "RepeatableJob" -> repeatable_ready_for_schedule(o, reg, t)
      [] o.kind = "CronJob" ->
            [ok |-> base_ready_for_schedule(o, reg), obj |-> o]

schedule_time(o, t) ==
    IF o.kind = "CronJob" THEN get_next_cron_time(t) ELSE o.scheduled_time

\* queue.enqueue_at(schedule_time, ...): a new entry in the registry
enqueue_at(reg, id, at) == reg \cup {Entry(id, at)}

\* mutant: the new job's id is not stored on the instance
schedule_forgets_id(o, reg, t, id) ==
    LET r == ready_for_schedule(o, reg, t)
    IN  IF ~r.ok
        THEN [ret |-> FALSE, obj |-> r.obj, reg |-> reg, enq |-> 0]
        ELSE [ret |-> TRUE, obj |-> r.obj,
              reg |-> enqueue_at(reg, id, schedule_time(r.obj, t)), enq |-> 1]

\* BaseJob.schedule on instance o with registry reg at instant t; id is the
\* id rq gives the next job.  enq counts the enqueue_at calls made.
schedule(o, reg, t, id) ==
    LET r == ready_for_schedule(o, reg, t)
    IN  IF ~r.ok
        THEN [ret |-> FALSE, obj |-> r.obj, reg |-> reg, enq |-> 0]
        ELSE [ret |-> TRUE,
              obj |-> [r.obj EXCEPT !.job_id = id],
              reg |-> enqueue_at(reg, id, schedule_time(r.obj, t)),
              enq |-> 1]

\* mutant: the enqueue is skipped when the registry already holds an entry
schedule_enqueue_exclusive(o, reg, t, id) ==
    IF reg = {}
    THEN [obj |-> [o EXCEPT !.job_id = id],
          reg |-> enqueue_at(reg, id, schedule_time(o, t)), enq |-> 1]
    ELSE [obj |-> o, reg |-> reg, enq |-> 0]

\* BaseJob.schedule after ready_for_schedule() has returned True (lines
\* 162-170): enqueue_at, then self.job_id = job.id.  Between the verdict and
\* this step another caller can run.
schedule_enqueue(o, reg, t, id) ==
    [obj |-> [o EXCEPT !.job_id = id],
     reg |-> enqueue_at(reg, id, schedule_time(o, t)), enq |-> 1]

\* scheduled_job_registry.remove
remove(reg, id) == {e \in reg : e.id # id}

\* queue.remove
queue_remove(q, id) == q \ {id}

\* mutant: job_id is cleared only when an entry was removed
unschedule_keeps_stale_id(o, reg, q) ==
    IF is_scheduled(o, reg)
    THEN [ret |-> TRUE, obj |-> [o EXCEPT !.job_id = NoJobId],
          reg |-> remove(reg, o.job_id), q |-> queue_remove(q, o.job_id),
          rem |-> 1]
    ELSE [ret |-> TRUE, obj |-> o, reg |-> reg, q |-> q, rem |-> 0]

\* BaseJob.unschedule; rem counts the remove calls made on the registry.
unschedule(o, reg, q) ==
    IF is_scheduled(o, reg)
    THEN [ret |-> TRUE, obj |-> [o EXCEPT !.job_id = NoJobId],
          reg |-> remove(reg, o.job_id), q |-> queue_remove(q, o.job_id),
          rem |-> 1]
    ELSE [ret |-> TRUE, obj |-> [o EXCEPT !.job_id = NoJobId],
          reg |-> reg, q |-> q, rem |-> 0]

\* mutant: the instance is not persisted again after schedule()
save_persists_once(o, reg, t, id, schedule_job) ==
    IF schedule_job
    THEN LET s == schedule(o, reg, t, id)
         IN  [obj |-> s.obj, row |-> o, mid |-> o, reg |-> s.reg,
              enq |-> s.enq, ret |-> s.ret]
    ELSE [obj |-> o, row |-> o, mid |-> o, reg |-> reg, enq |-> 0, ret |-> FALSE]

\* BaseJob.save: persist, then (with schedule intent) schedule and persist
\* again.  mid is the row as the first persist writes it.
save(o, reg, t, id, schedule_job) ==
    IF schedule_job
    THEN LET s == schedule(o, reg, t, id)
         IN  [obj |-> s.obj, row |-> s.obj, mid |-> o, reg |-> s.reg,
              enq |-> s.enq, ret |-> s.ret]
    ELSE [obj |-> o, row |-> o, mid |-> o, reg |-> reg, enq |-> 0, ret |-> FALSE]

\* mutant: the lookup takes the first record, whatever its job_id
filter_job_id_any(rows, id) == rows

\* model.objects.filter(job_id=id).first()
filter_job_id(rows, id) == {row \in rows : row.job_id = id}

\* mutant: the callback does not save what it rescheduled
callback_save_job_no_save(rows, reg, q, t, nid, nid2, id) ==
    LET found == filter_job_id(rows, id)
    IN  IF found = {}
        THEN [found |-> FALSE, rows |-> rows, reg |-> reg, q |-> q,
              enq |-> 0, rem |-> 0, pre |-> {}, obj |-> {}]
        ELSE LET o  == CHOOSE row \in found : TRUE
                 u  == unschedule(o, reg, q)
                 s  == schedule(u.obj, u.reg, t, nid)
             IN  [found |-> TRUE, rows |-> rows, reg |-> s.reg, q |-> u.q,
                  enq |-> s.enq, rem |-> u.rem, pre |-> {o}, obj |-> {s.obj}]

\* callback_save_job(job, ...), job.id = id, with job.meta['job_type'] set
\* (enqueue_args always sets it): unschedule, schedule, save.
callback_save_job(rows, reg, q, t, nid, nid2, id) ==
    LET found == filter_job_id(rows, id)
    IN  IF found = {}
        THEN [found |-> FALSE, rows |-> rows, reg |-> reg, q |-> q,
              enq |-> 0, rem |-> 0, pre |-> {}, obj |-> {}]
        ELSE LET o  == CHOOSE row \in found : TRUE
                 u  == unschedule(o, reg, q)
                 s  == schedule(u.obj, u.reg, t, nid)
                 sv == save(s.obj, s.reg, t, nid2, TRUE)
             IN  [found |-> TRUE, rows |-> {sv.row}, reg |-> sv.reg, q |-> u.q,
                  enq |-> s.enq + sv.enq, rem |-> u.rem,
                  pre |-> {o}, obj |-> {sv.obj}]

\* The calls of the callback's body in which rq, redis or the database can
\* raise: the registry lookup of unschedule(), the enqueue_at of schedule(),
\* the first write of save().
Faults == {"unschedule", "schedule", "save"}

\* callback_save_job when the call named by `fault` raises.  Lines 24-33 hold
\* no try/except, so the exception leaves the callback at that call: what
\* was done before it stays done, nothing after it runs, and the exception
\* reaches the caller (raised).  `applies` tells whether the call is made at
\* all: a missing record makes none, and schedule() on a record that is not
\* ready makes no enqueue_at call.
callback_save_job_raising(rows, reg, q, t, nid, id, fault) ==
    LET found == filter_job_id(rows, id)
    IN  IF found = {}
        THEN [applies |-> FALSE, rows |-> rows, reg |-> reg, q |-> q,
              enq |-> 0, rem |-> 0, pre |-> {}, obj |-> {}, raised |-> FALSE]
        ELSE LET o == CHOOSE row \in found : TRUE
                 u == unschedule(o, reg, q)
                 r == ready_for_schedule(u.obj, u.reg, t)
                 s == schedule(u.obj, u.reg, t, nid)
             IN  CASE fault = "unschedule" ->
                        [applies |-> TRUE, rows |-> rows, reg |-> reg,
                         q |-> q, enq |-> 0, rem |-> 0, pre |-> {o},
                         obj |-> {o}, raised |-> TRUE]
                   [] fault = "schedule" ->
                        [applies |-> r.ok, rows |-> rows, reg |-> u.reg,
                         q |-> u.q, enq |-> 0, rem |-> u.rem, pre |-> {o},
                         obj |-> {r.obj}, raised |-> TRUE]
                   [] fault = "save" ->
                        [applies |-> TRUE, rows |-> rows, reg |-> s.reg,
                         q |-> u.q, enq |-> s.enq, rem |-> u.rem, pre |-> {o},
                         obj |-> {s.obj}, raised |-> TRUE]

(* ------------------------------------------- startup (scheduler/apps.py) *)
\* tools.reschedule_all_jobs, the Bulk Rescheduler: schedule() on every
\* enabled record, false returns ignored.  When the storage layer is not
\* ready (fails) the query raises before any record is touched.
reschedule_all_jobs(rows, reg, t, id, fails) ==
    IF fails
    THEN [raised |-> TRUE, reg |-> reg, enq |-> 0, pre |-> rows, obj |-> rows]
    ELSE LET enabled_jobs == {o \in rows : o.enabled}
         IN  IF enabled_jobs = {}
             THEN [raised |-> FALSE, reg |-> reg, enq |-> 0, pre |-> rows,
                   obj |-> rows]
             ELSE LET o == CHOOSE row \in enabled_jobs : TRUE
                      s == schedule(o, reg, t, id)
                  IN  [raised |-> FALSE, reg |-> s.reg, enq |-> s.enq,
                       pre |-> rows, obj |-> {s.obj}]

\* mutant: the rescheduling pass is not guarded
ready_unguarded(rows, reg, t, id, fails) ==
    LET b == reschedule_all_jobs(rows, reg, t, id, fails)
    IN  [raised |-> b.raised, started |-> ~b.raised, reg |-> b.reg,
         enq |-> b.enq, pre |-> b.pre, obj |-> b.obj,
         fault |-> IF b.raised THEN "reschedule_all_jobs" ELSE "none"]

\* SchedulerConfig.ready: try reschedule_all_jobs(), except Exception: pass;
\* then start_scheduler_thread().
ready(rows, reg, t, id, fails) ==
    LET b == reschedule_all_jobs(rows, reg, t, id, fails)
    IN  [raised |-> FALSE, started |-> TRUE, reg |-> b.reg,
         enq |-> b.enq, pre |-> b.pre, obj |-> b.obj,
         fault |-> IF b.raised THEN "reschedule_all_jobs" ELSE "none"]

(* --------------------------------------------------- application edits *)
\* The owning application changes a field of the instance before saving.
Edits ==
    {[f |-> "none", v |-> 0]}
    \cup {[f |-> "enabled", v |-> b] : b \in {0, 1}}
    \cup {[f |-> "scheduled_time", v |-> x] : x \in Times}
    \cup {[f |-> "repeat", v |-> x] : x \in Repeats}

\* An edit changes a field the record's class has (CronJob has no
\* scheduled_time; repeat drives only RepeatableJob).
EditApplies(o, ed) ==
    CASE ed.f = "none" -> TRUE
      [] ed.f = "enabled" -> o.enabled # (ed.v = 1)
      [] ed.f = "scheduled_time" ->
            o.kind # "CronJob" /\ o.scheduled_time # ed.v
      [] ed.f = "repeat" -> o.kind = "RepeatableJob" /\ o.repeat # ed.v

Edit(o, ed) ==
    CASE ed.f = "none" -> o
      [] ed.f = "enabled" -> [o EXCEPT !.enabled = (ed.v = 1)]
      [] ed.f = "scheduled_time" -> [o EXCEPT !.scheduled_time = ed.v]
      [] ed.f = "repeat" -> [o EXCEPT !.repeat = ed.v]

(* ---------------------------------------------------------------- state *)
JobIds == 1..MaxId

\* The job ids some part of the state still holds.
UsedIds == get_job_ids(registry) \cup queue \cup {o.job_id : o \in db}

\* rq names a new job by an id nothing holds (NoJobId when the model has run
\* out of ids: an operation that would need one is then not taken).
FreshId(used) ==
    IF JobIds \ used = {} THEN NoJobId
    ELSE CHOOSE id \in JobIds \ used : \A j \in JobIds \ used : id <= j

HasIds(reg) == NoJobId \notin get_job_ids(reg)

\* A new instance, stored without scheduling: job_id is None.
NewInstances ==
    {[kind |-> "ScheduledJob", interval |-> 0, enabled |-> en, job_id |-> NoJobId,
      scheduled_time |-> st, repeat |-> NoRepeat] : en \in BOOLEAN, st \in Times}
    \cup
    {[kind |-> "RepeatableJob", interval |-> i, enabled |-> en, job_id |-> NoJobId,
      scheduled_time |-> st, repeat |-> rp] :
        i \in {IntervalTicks}, en \in BOOLEAN, st \in Times, rp \in Repeats}
    \cup
    {[kind |-> "CronJob", interval |-> 0, enabled |-> en, job_id |-> NoJobId,
      scheduled_time |-> 0, repeat |-> NoRepeat] : en \in BOOLEAN}

\* What the operation of the last step was, the instance it was invoked on
\* (pre), the registry it found (reg), the instance it left in memory (obj),
\* what it returned and how many enqueue_at and remove calls it made, which
\* call inside it failed (fault), whether it raised instead of returning, and
\* whether it started the scheduler thread; for a callback, the stored rows
\* it searched (rows).  The operation ran at instant `now`.
Called(op, ret, pre, obj, enq, rem, ed, id) ==
    [op |-> op, ret |-> ret, pre |-> pre, obj |-> obj, enq |-> enq,
     rem |-> rem, edited |-> ed, jid |-> id, reg |-> registry, rows |-> {},
     raised |-> FALSE, fault |-> "none", started |-> FALSE]

\* No operation of the record ran in the last step (the clock or rq moved).
Idle ==
    [op |-> "none", ret |-> FALSE, pre |-> {}, obj |-> {}, enq |-> 0,
     rem |-> 0, edited |-> FALSE, jid |-> NoJobId, reg |-> {}, rows |-> {},
     raised |-> FALSE, fault |-> "none", started |-> FALSE]

\* The callers that can be inside schedule() at the same time, and what a
\* caller that is not inside a call holds.
Procs == {1, 2}
NoCall == [pc |-> "idle", obj |-> {}, ok |-> FALSE, reg |-> {}]

Init ==
    /\ db \in {{o} : o \in NewInstances}
    /\ registry = {}
    /\ queue = {}
    /\ now = 0
    /\ last = Idle
    /\ calls = [p \in Procs |-> NoCall]
    /\ runs = 0

\* The operation of the last step has returned to its caller.
Returned == last = Idle

Return ==
    /\ ~Returned
    /\ last' = Idle
    /\ UNCHANGED <<db, registry, queue, now, calls, runs>>

\* The clock advances.
Tick ==
    /\ Returned
    /\ now < MaxTime
    /\ now' = now + 1
    /\ last' = Idle
    /\ UNCHANGED <<db, registry, queue, calls, runs>>

\* instance.ready_for_schedule() on a freshly loaded instance
ReadyOp ==
    \E o \in db :
      /\ Returned
      /\ LET r == ready_for_schedule(o, registry, now)
         IN  /\ last' = Called("ready_for_schedule", r.ok, {o}, {r.obj}, 0, 0,
                               FALSE, NoJobId)
             /\ UNCHANGED <<db, registry, queue, now, calls, runs>>

\* instance.schedule() on a freshly loaded instance, not followed by a save
ScheduleOp ==
    \E o \in db :
      LET s == schedule(o, registry, now, FreshId(UsedIds))
      IN  /\ Returned
          /\ HasIds(s.reg)
          /\ registry' = s.reg
          /\ last' = Called("schedule", s.ret, {o}, {s.obj}, s.enq, 0,
                            FALSE, NoJobId)
          /\ UNCHANGED <<db, queue, now, calls, runs>>

\* instance.unschedule() on a freshly loaded instance, not followed by a save
UnscheduleOp ==
    \E o \in db :
      LET u == unschedule(o, registry, queue)
      IN  /\ Returned
          /\ registry' = u.reg
          /\ queue' = u.q
          /\ last' = Called("unschedule", u.ret, {o}, {u.obj}, 0, u.rem,
                            FALSE, NoJobId)
          /\ UNCHANGED <<db, now, calls, runs>>

\* The application loads the record, edits a field (or none) and calls save()
SaveOp ==
    \E o \in db, ed \in Edits :
      /\ Returned
      /\ EditApplies(o, ed)
      /\ LET sv == save(Edit(o, ed), registry, now, FreshId(UsedIds), TRUE)
         IN  /\ HasIds(sv.reg)
             /\ db' = {sv.row}
             /\ registry' = sv.reg
             /\ last' = Called("save", sv.ret, {Edit(o, ed)}, {sv.obj}, sv.enq,
                               0, ed.f # "none", NoJobId)
             /\ UNCHANGED <<queue, now, calls, runs>>

\* ... or calls save(schedule_job=False)
SaveNoScheduleOp ==
    \E o \in db, ed \in Edits :
      /\ Returned
      /\ EditApplies(o, ed)
      /\ LET sv == save(Edit(o, ed), registry, now, NoJobId, FALSE)
         IN  /\ db' = {sv.row}
             /\ last' = Called("save_no_schedule", sv.ret, {Edit(o, ed)},
                               {sv.obj}, sv.enq, 0, ed.f # "none", NoJobId)
             /\ UNCHANGED <<registry, queue, now, calls, runs>>

\* BaseJob.delete: unschedule, then the row is destroyed
DeleteOp ==
    \E o \in db :
      LET u == unschedule(o, registry, queue)
      IN  /\ Returned
          /\ db' = {}
          /\ registry' = u.reg
          /\ queue' = u.q
          /\ last' = Called("delete", u.ret, {o}, {u.obj}, 0, u.rem,
                            FALSE, NoJobId)
          /\ UNCHANGED <<now, calls, runs>>

\* rq's scheduler moves an entry that is due from the scheduled-job registry
\* to the pending queue.
Promote ==
    \E e \in registry :
      /\ Returned
      /\ e.at <= now
      /\ registry' = registry \ {e}
      /\ queue' = queue \cup {e.id}
      /\ last' = Idle
      /\ UNCHANGED <<db, now, calls, runs>>

\* The registry loses an entry without running it (expiry, flush).
Expire ==
    \E e \in registry :
      /\ Returned
      /\ registry' = registry \ {e}
      /\ last' = Idle
      /\ UNCHANGED <<db, queue, now, calls, runs>>

\* A worker takes a pending entry, runs it, and rq calls callback_save_job
\* (on_success and on_failure are the same function).
RunJob ==
    \E id \in queue :
      LET n1 == FreshId(UsedIds)
          n2 == FreshId(UsedIds \cup {n1})
          c  == callback_save_job(db, registry, queue \ {id}, now, n1, n2, id)
      IN  /\ Returned
          /\ HasIds(c.reg)
          /\ db' = c.rows
          /\ registry' = c.reg
          /\ queue' = c.q
          /\ last' = [Called("callback_save_job", c.found, c.pre, c.obj,
                             c.enq, c.rem, FALSE, id) EXCEPT !.rows = db]
          /\ UNCHANGED <<now, calls, runs>>

\* A worker runs a pending entry and a call inside callback_save_job raises.
RunJobRaises ==
    \E id \in queue, fault \in Faults :
      LET c == callback_save_job_raising(db, registry, queue \ {id}, now,
                                         FreshId(UsedIds), id, fault)
      IN  /\ Returned
          /\ c.applies
          /\ HasIds(c.reg)
          /\ db' = c.rows
          /\ registry' = c.reg
          /\ queue' = c.q
          /\ last' = [Called("callback_save_job", TRUE, c.pre, c.obj, c.enq,
                             c.rem, FALSE, id)
                          EXCEPT !.rows = db, !.raised = c.raised,
                                 !.fault = fault]
          /\ UNCHANGED <<now, calls, runs>>

Next ==
    \/ Return
    \/ Tick
    \/ ReadyOp
    \/ ScheduleOp
    \/ UnscheduleOp
    \/ SaveOp
    \/ SaveNoScheduleOp
    \/ DeleteOp
    \/ Promote
    \/ Expire
    \/ RunJob

Spec == Init /\ [][Next]_vars

\* The process starts: Django calls SchedulerConfig.ready(), with the storage
\* layer ready or not.
ReadyApp ==
    \E fails \in BOOLEAN :
      LET r == ready(db, registry, now, FreshId(UsedIds), fails)
      IN  /\ Returned
          /\ HasIds(r.reg)
          /\ registry' = r.reg
          /\ last' = [Called("ready", TRUE, r.pre, r.obj, r.enq, 0, FALSE,
                             NoJobId)
                          EXCEPT !.raised = r.raised, !.fault = r.fault,
                                 !.started = r.started]
          /\ UNCHANGED <<db, queue, now, calls, runs>>

\* An operator runs the Bulk Rescheduler again.
RescheduleAllOp ==
    LET b == reschedule_all_jobs(db, registry, now, FreshId(UsedIds), FALSE)
    IN  /\ Returned
        /\ HasIds(b.reg)
        /\ registry' = b.reg
        /\ last' = Called("reschedule_all_jobs", TRUE, b.pre, b.obj, b.enq, 0,
                          FALSE, NoJobId)
        /\ UNCHANGED <<db, queue, now, calls, runs>>

\* The system with its startup and the Bulk Rescheduler.
NextStartup ==
    \/ Next
    \/ ReadyApp
    \/ RescheduleAllOp

SpecStartup == Init /\ [][NextStartup]_vars

\* Two callers invoke schedule() on the record with no lock between them.
\* A caller loads the stored row and evaluates ready_for_schedule() (it reads
\* the registry once, in is_scheduled()); calls[c].reg is the registry it saw.
BeginSchedule(c) ==
    \E o \in db :
      LET r == ready_for_schedule(o, registry, now)
      IN  /\ calls[c].pc = "idle"
          /\ calls' = [calls EXCEPT ![c] =
                 [pc |-> IF r.ok THEN "ready" ELSE "returned", obj |-> {r.obj},
                  ok |-> r.ok, reg |-> registry]]
          /\ UNCHANGED <<db, registry, queue, now, last, runs>>

\* The caller, told the record is ready, enqueues and stores the job's id on
\* its instance; schedule() returns True.
EnqueueStep(c) ==
    \E o \in calls[c].obj :
      LET s == schedule_enqueue(o, registry, now, FreshId(UsedIds))
      IN  /\ calls[c].pc = "ready"
          /\ HasIds(s.reg)
          /\ registry' = s.reg
          /\ calls' = [calls EXCEPT ![c].pc = "returned", ![c].obj = {s.obj}]
          /\ UNCHANGED <<db, queue, now, last, runs>>

\* The caller persists its instance (the second write of save()).
PersistStep(c) ==
    /\ calls[c].pc = "returned"
    /\ db # {}
    /\ db' = calls[c].obj
    /\ calls' = [calls EXCEPT ![c].pc = "saved"]
    /\ UNCHANGED <<registry, queue, now, last, runs>>

NextRace ==
    \/ \E c \in Procs : BeginSchedule(c)
    \/ \E c \in Procs : EnqueueStep(c)
    \/ \E c \in Procs : PersistStep(c)
    \/ Tick

SpecRace == Init /\ [][NextRace]_vars

\* One repeat series, followed from its first scheduling to its end: an
\* enabled interval record with a finite repeat and scheduled_time in the
\* future has just been saved, and from then on only the clock, rq and the
\* callback act on it.  The clock runs until every such series can have
\* ended: past the last instant a series can be advanced to.
SeriesIntervals == {1, IntervalTicks}

SeriesHorizon == MaxTime + MaxRepeat * IntervalTicks + 1

SeriesInstances ==
    {[kind |-> "RepeatableJob", interval |-> i, enabled |-> TRUE,
      job_id |-> NoJobId, scheduled_time |-> st, repeat |-> rp] :
        i \in SeriesIntervals, st \in Times \ {0}, rp \in 0..MaxRepeat}

InitSeries ==
    /\ \E o \in SeriesInstances :
          LET sv == save(o, {}, 0, 1, TRUE)
          IN  /\ db = {sv.row}
              /\ registry = sv.reg
    /\ queue = {}
    /\ now = 0
    /\ last = Idle
    /\ calls = [p \in Procs |-> NoCall]
    /\ runs = 0

SeriesTick ==
    /\ Returned
    /\ now < SeriesHorizon
    /\ now' = now + 1
    /\ last' = Idle
    /\ UNCHANGED <<db, registry, queue, calls, runs>>

\* A worker runs a pending entry after the instant it was scheduled for, and
\* rq calls callback_save_job; the run is counted.
RunLate ==
    \E id \in queue :
      LET n1 == FreshId(UsedIds)
          n2 == FreshId(UsedIds \cup {n1})
          c  == callback_save_job(db, registry, queue \ {id}, now, n1, n2, id)
      IN  /\ Returned
          /\ \A o \in db : o.job_id = id => o.scheduled_time < now
          /\ HasIds(c.reg)
          /\ db' = c.rows
          /\ registry' = c.reg
          /\ queue' = c.q
          /\ runs' = runs + 1
          /\ last' = [Called("callback_save_job", c.found, c.pre, c.obj,
                             c.enq, c.rem, FALSE, id) EXCEPT !.rows = db]
          /\ UNCHANGED <<now, calls>>

\* When RunLate can be taken: a pending entry is past its instant.
RunLateEnabled ==
    /\ Returned
    /\ \E id \in queue :
          \A o \in db : o.job_id = id => o.scheduled_time < now

NextSeries ==
    \/ Return
    \/ SeriesTick
    \/ Promote
    \/ RunLate

\* The clock runs, rq's scheduler promotes what is due, a worker runs what is
\* pending and every call returns: weak fairness of each step (that of
\* RunLate is written out, with its enabling condition).
SpecSeries ==
    /\ InitSeries
    /\ [][NextSeries]_vars
    /\ WF_vars(Return)
    /\ WF_vars(SeriesTick)
    /\ WF_vars(Promote)
    /\ ([]<>(~RunLateEnabled) \/ []<><<RunLate>>_vars)

\* The same system when rq, redis or the database can fail under the
\* callback.
NextFaulty ==
    \/ Next
    \/ RunJobRaises

SpecFaulty == Init /\ [][NextFaulty]_vars

(* ================================================================ claims *)

\* The states of the scheduling state machine: the registry holds no entry of
\* the record other than the one its job_id names (Scheduled), or none
\* (Unscheduled, or a stale job_id).
InMachineState(o, reg) == get_job_ids(reg) \subseteq {o.job_id}

OneEntry ==
    \A o \in db : Cardinality(registry) <= 1 /\ InMachineState(o, registry)

\* C1 as stated, in what it says of the number of entries: after any
\* sequence of save(), schedule(), unschedule(), delete(), runs and
\* callbacks, each invoked on the stored row, the registry holds at most one
\* entry of the record (whose id would then be the record's job_id).
C1_Original == Cardinality(registry) <= 1

\* C1, amended: the registry starts with at most one entry of the record,
\* under the record's stored job_id, and every operation preserves that,
\* except a schedule() that enqueues and whose job_id is not saved: save(),
\* unschedule(), delete(), runs and callback_save_job keep the registry at
\* no more than one entry, the one job_id names.
C1_OneEntryPreserved ==
    /\ OneEntry
    /\ [][(OneEntry /\ ~(last'.op = "schedule" /\ last'.ret)) => OneEntry']_vars

\* C1 witness: a run's callback has rescheduled the record, and the registry
\* holds exactly the entry the stored job_id names.
C1_Witness ==
    /\ last.op = "callback_save_job"
    /\ last.enq = 1
    /\ Cardinality(registry) = 1
    /\ OneEntry
    /\ \E o \in db : is_scheduled(o, registry)

\* C2 as stated: a stored record with enabled = false has no live entry in
\* the registry (here: not even the one its own job_id names).
C2_DisabledNotLive ==
    \A o \in db : ~o.enabled => ~is_scheduled(o, registry)

\* C3: unschedule() on a record in any state of the state machine returns
\* true, leaves job_id = None and no registry entry of the record; calling it
\* again returns true and changes nothing; when the job_id was not in the
\* registry (None or stale) no remove is made and the registry is as it was.
C3_Unschedule ==
    last.op = "unschedule" =>
        \A p \in last.pre, x \in last.obj :
            LET again == unschedule(x, registry, queue)
            IN  /\ last.ret = TRUE
                /\ x = [p EXCEPT !.job_id = NoJobId]
                /\ InMachineState(p, last.reg) => registry = {}
                /\ again.ret = TRUE
                /\ again.obj = x
                /\ again.reg = registry
                /\ again.q = queue
                /\ again.rem = 0
                /\ ~is_scheduled(p, last.reg) =>
                       last.rem = 0 /\ registry = last.reg

\* C3 witness: unschedule() has run on a record holding a stale job_id.
C3_Witness ==
    /\ last.op = "unschedule"
    /\ last.rem = 0
    /\ \E p \in last.pre : p.job_id # NoJobId /\ ~is_scheduled(p, last.reg)
    /\ registry = {}
    /\ \A x \in last.obj : x.job_id = NoJobId

\* C4: whenever schedule() returns false (called directly or by save()), no
\* enqueue_at call was made, the registry is as it was, and the instance's
\* job_id, scheduled_time and repeat are as they were, for every job kind.
C4_ScheduleFalseNoEffect ==
    (last.op \in {"schedule", "save"} /\ last.ret = FALSE) =>
        /\ last.enq = 0
        /\ registry = last.reg
        /\ last.obj = last.pre

\* C4 witness: schedule() returned false on an enabled, unscheduled interval
\* record in the past, so the catch-up advancement was evaluated.
C4_Witness ==
    /\ last.op = "schedule"
    /\ last.ret = FALSE
    /\ \E p \in last.pre :
          /\ p.kind = "RepeatableJob"
          /\ p.enabled
          /\ ~is_scheduled(p, last.reg)
          /\ p.scheduled_time < now

\* C5 as stated: for every enabled fixed-instant record with scheduled_time
\* in the future, schedule() returns true and is_scheduled() is true after.
C5_Original ==
    last.op = "schedule" =>
        \A p \in last.pre, x \in last.obj :
            (p.kind = "ScheduledJob" /\ p.enabled /\ p.scheduled_time > now)
                => (last.ret = TRUE /\ is_scheduled(x, registry))

\* C5, amended: for every enabled fixed-instant record with scheduled_time
\* in the future, is_scheduled() is true after schedule(), and schedule()
\* returns true exactly when the record was not already scheduled.
C5_ScheduleFuture ==
    last.op = "schedule" =>
        \A p \in last.pre, x \in last.obj :
            (p.kind = "ScheduledJob" /\ p.enabled /\ p.scheduled_time > now)
                => /\ is_scheduled(x, registry)
                   /\ last.ret = ~is_scheduled(p, last.reg)

\* C5 witness: schedule() returned true on such a record, not scheduled before.
C5_Witness ==
    /\ last.op = "schedule"
    /\ last.ret = TRUE
    /\ \E p \in last.pre, x \in last.obj :
          /\ p.kind = "ScheduledJob"
          /\ p.enabled
          /\ p.scheduled_time > now
          /\ ~is_scheduled(p, last.reg)
          /\ is_scheduled(x, registry)

\* C6: schedule(), save() and callback_save_job never enqueue a fixed-instant
\* record whose scheduled_time is earlier than now (no enqueue_at call, no
\* entry added to the registry); after the callback of its run the record is
\* stored with job_id = None; and no operation on it sets a job_id again
\* while its scheduled_time stays in the past.
C6_PastNeverEnqueued ==
    \A p \in last.pre, x \in last.obj :
        (p.kind = "ScheduledJob" /\ p.scheduled_time < now) =>
            /\ last.op \in {"schedule", "save", "callback_save_job"} =>
                   /\ last.enq = 0
                   /\ registry \subseteq last.reg
            /\ last.op = "callback_save_job" =>
                   /\ x.job_id = NoJobId
                   /\ db = {x}
                   /\ ~is_scheduled(x, registry)
            /\ p.job_id = NoJobId => x.job_id = NoJobId

\* C6 witness: the callback of the run of a past fixed-instant record has run.
C6_Witness ==
    /\ last.op = "callback_save_job"
    /\ last.ret = TRUE
    /\ \E p \in last.pre :
          /\ p.kind = "ScheduledJob"
          /\ p.enabled
          /\ p.scheduled_time < now
          /\ p.job_id = last.jid
    /\ \E o \in db : o.job_id = NoJobId
    /\ registry = {}

\* The number of intervals missed by instance p at instant t > p.scheduled_time:
\* the least k with k * interval >= t - scheduled_time.
MissedIntervals(p, t) ==
    CHOOSE k \in 1..(t - p.scheduled_time) :
        /\ k * p.interval >= t - p.scheduled_time
        /\ (k - 1) * p.interval < t - p.scheduled_time

C8_Exhausted ==
    last.op = "ready_for_schedule" =>
        \A p \in last.pre, x \in last.obj :
            ( /\ p.kind = "RepeatableJob"
              /\ p.repeat # NoRepeat
              /\ p.scheduled_time < now
              /\ MissedIntervals(p, now) > p.repeat )
            => /\ last.ret = FALSE
               /\ x = p
               /\ x.scheduled_time < now

\* C8 witness: ready_for_schedule() ran on an enabled, unscheduled interval
\* record that had some repeats left, but fewer than the intervals missed.
C8_Witness ==
    /\ last.op = "ready_for_schedule"
    /\ last.ret = FALSE
    /\ \E p \in last.pre :
          /\ p.kind = "RepeatableJob"
          /\ p.enabled
          /\ ~is_scheduled(p, last.reg)
          /\ p.repeat >= 1
          /\ p.scheduled_time < now
          /\ MissedIntervals(p, now) > p.repeat

\* C9 as stated: from any state of an interval record with repeat = 0, no
\* schedule(), save() or callback_save_job enqueues the record.
C9_Original ==
    last.op \in {"schedule", "save", "callback_save_job"} =>
        \A p \in last.pre :
            (p.kind = "RepeatableJob" /\ p.repeat = 0) => last.enq = 0

\* C9, amended: from any state of an interval record with repeat = 0 and
\* scheduled_time earlier than now, no schedule(), save() or
\* callback_save_job enqueues the record, and repeat stays 0.
C9_ExhaustedNeverEnqueued ==
    last.op \in {"schedule", "save", "callback_save_job"} =>
        \A p \in last.pre, x \in last.obj :
            ( /\ p.kind = "RepeatableJob"
              /\ p.repeat = 0
              /\ p.scheduled_time < now )
            => /\ last.enq = 0
               /\ registry \subseteq last.reg
               /\ x.repeat = 0
               /\ x.scheduled_time = p.scheduled_time

\* C9 witness: the callback of the last run of an enabled interval record
\* with repeat = 0 has run, after its scheduled_time, and enqueued nothing.
C9_Witness ==
    /\ last.op = "callback_save_job"
    /\ last.ret = TRUE
    /\ last.enq = 0
    /\ \E p \in last.pre :
          /\ p.kind = "RepeatableJob"
          /\ p.enabled
          /\ p.repeat = 0
          /\ p.scheduled_time < now

\* C10: no state-machine operation (ready_for_schedule, schedule, unschedule,
\* save, delete, callback_save_job) leaves an interval record with a
\* scheduled_time earlier than the one it was invoked with, in memory or
\* stored.
C10_ScheduledTimeForward ==
    \A p \in last.pre, x \in last.obj :
        p.kind = "RepeatableJob" =>
            /\ x.scheduled_time >= p.scheduled_time
            /\ last.op \in {"save", "callback_save_job"} => db = {x}

\* C10 witness: a callback has stored an advanced scheduled_time.
C10_Witness ==
    /\ last.op = "callback_save_job"
    /\ \E p \in last.pre, x \in db :
          /\ p.kind = "RepeatableJob"
          /\ x.scheduled_time > p.scheduled_time

\* C11: after callback_save_job completes for the run of an enabled cron
\* record that still exists, the record is Scheduled again: exactly one
\* enqueue_at call was made (schedule() runs directly and again inside
\* save()), the registry holds that one new entry next to what it held
\* before (so it is the record's only entry when it held none), the entry
\* fires at the next cron instant, and the stored job_id is the entry's id.
C11_CronRescheduled ==
    last.op = "callback_save_job" =>
        \A p \in last.pre, x \in last.obj :
            (p.kind = "CronJob" /\ p.enabled) =>
                /\ last.enq = 1
                /\ db = {x}
                /\ x.job_id # NoJobId
                /\ x.job_id # last.jid
                /\ x.job_id \notin get_job_ids(last.reg)
                /\ registry =
                       last.reg \cup {Entry(x.job_id, get_next_cron_time(now))}
                /\ is_scheduled(x, registry)

\* C11 witness: the callback of the run of an enabled cron record has run
\* and the new entry is the only one in the registry.
C11_Witness ==
    /\ last.op = "callback_save_job"
    /\ last.enq = 1
    /\ \E p \in last.pre : p.kind = "CronJob" /\ p.enabled /\ p.job_id = last.jid
    /\ \E o \in db :
          registry = {Entry(o.job_id, get_next_cron_time(now))}

\* C12: when callback_save_job is invoked for a run whose id no stored record
\* carries as job_id (the record was deleted, or rescheduled under a new
\* id), it is a silent no-op: it does not raise, makes no enqueue_at and no
\* remove call, and leaves every stored record and the registry as they were.
C12_MissingRecordNoOp ==
    ( /\ last.op = "callback_save_job"
      /\ \A row \in last.rows : row.job_id # last.jid )
    => /\ ~last.raised
       /\ last.enq = 0
       /\ last.rem = 0
       /\ last.obj = {}
       /\ db = last.rows
       /\ registry = last.reg

\* C12 witness: the callback of a run ran after the record had been
\* rescheduled under another id, which is still in the registry.
C12_Witness ==
    /\ last.op = "callback_save_job"
    /\ last.rows # {}
    /\ \A row \in last.rows : row.job_id # last.jid
    /\ \E row \in db : is_scheduled(row, registry)

\* C13 as stated: callback_save_job never raises outward to the executor; a
\* failure of unschedule(), schedule() or save() inside it is contained and
\* the callback completes normally.
C13_NeverRaises ==
    last.op = "callback_save_job" => ~last.raised

\* The record p is eligible at instant t against registry reg: enabled, not
\* scheduled, and not blocked by time (a fixed instant not yet passed; an
\* interval record not yet due, or with unbounded repeats, or with repeats
\* for every interval missed).
Eligible(p, reg, t) ==
    /\ p.enabled
    /\ ~(p.job_id # NoJobId /\ \E e \in reg : e.id = p.job_id)
    /\ CASE p.kind = "ScheduledJob" -> p.scheduled_time >= t
         [] p.kind = "CronJob" -> TRUE
         [] p.kind = "RepeatableJob" ->
               \/ p.scheduled_time >= t
               \/ p.repeat = NoRepeat
               \/ p.repeat * p.interval >= t - p.scheduled_time

\* C14: every save() with schedule intent leaves the stored row equal to the
\* in-memory instance (so the persisted job_id is the in-memory job_id) and,
\* when the record was eligible, Scheduled under an entry it enqueued (when
\* it was not eligible it enqueues nothing); save(schedule_job=False) stores
\* the fields and leaves the registry and job_id as they were.
C14_Save ==
    \A p \in last.pre, x \in last.obj :
        /\ last.op = "save" =>
               /\ db = {x}
               /\ Eligible(p, last.reg, now) =>
                      /\ last.ret = TRUE
                      /\ last.enq = 1
                      /\ is_scheduled(x, registry)
                      /\ \A o \in db : is_scheduled(o, registry)
               /\ ~Eligible(p, last.reg, now) =>
                      /\ last.enq = 0
                      /\ registry = last.reg
                      /\ x.job_id = p.job_id
        /\ last.op = "save_no_schedule" =>
               /\ db = {x}
               /\ x = p
               /\ last.enq = 0
               /\ registry = last.reg

\* C14 witness: save() of an edited, eligible record has scheduled it and
\* stored the new job_id.
C14_Witness ==
    /\ last.op = "save"
    /\ last.edited
    /\ last.ret = TRUE
    /\ \E p \in last.pre, o \in db :
          /\ Eligible(p, last.reg, now)
          /\ p.job_id # o.job_id
          /\ is_scheduled(o, registry)

\* C15 as stated, for a record whose only registry entry is the one its
\* job_id names: after delete() neither the scheduled-job registry nor the
\* pending queue contains an entry that belonged to the record (every entry
\* of the model belongs to the one record followed).
C15_DeleteLeavesNoEntry ==
    last.op = "delete" =>
        \A p \in last.pre :
            InMachineState(p, last.reg) => (registry = {} /\ queue = {})

\* C16: when reschedule_all_jobs raises at application startup (the storage
\* layer is not ready), SchedulerConfig.ready() swallows the error: it
\* returns without raising, no record was scheduled, and the scheduler thread
\* was started all the same.
C16_ReadySwallows ==
    last.op = "ready" =>
        /\ ~last.raised
        /\ last.started
        /\ last.fault = "reschedule_all_jobs" =>
               /\ last.enq = 0
               /\ registry = last.reg
               /\ last.obj = last.pre

\* C16 witness: ready() ran with the storage layer not ready while a stored
\* record was enabled and unscheduled, and the thread was started.
C16_Witness ==
    /\ last.op = "ready"
    /\ last.fault = "reschedule_all_jobs"
    /\ last.started
    /\ ~last.raised
    /\ \E o \in db : o.enabled /\ ~is_scheduled(o, registry)

\* C17: a record that is disabled and not scheduled is never enqueued, for
\* every job kind: schedule() on it returns false, and neither schedule(),
\* save(), callback_save_job, the Bulk Rescheduler nor the startup pass makes
\* an enqueue_at call or changes the registry, so however often the Bulk
\* Rescheduler runs no entry appears for it.
C17_DisabledNeverEnqueued ==
    \A p \in last.pre :
        ( /\ last.op \in {"schedule", "save", "callback_save_job",
                          "reschedule_all_jobs", "ready"}
          /\ ~p.enabled
          /\ ~(p.job_id # NoJobId /\ \E e \in last.reg : e.id = p.job_id) )
        => /\ last.enq = 0
           /\ registry = last.reg
           /\ last.op = "schedule" => last.ret = FALSE
           /\ \A x \in last.obj : ~is_scheduled(x, registry)

\* C17 witness: the Bulk Rescheduler has run over a disabled, unscheduled
\* record at an instant at which an enabled one would have been enqueued,
\* and the registry is empty.
C17_Witness ==
    /\ last.op = "reschedule_all_jobs"
    /\ registry = {}
    /\ \E p \in last.pre :
          /\ ~p.enabled
          /\ p.job_id = NoJobId
          /\ Eligible([p EXCEPT !.enabled = TRUE], last.reg, now)

\* Both callers have enqueued, and each evaluated is_scheduled() before the
\* other's entry was in the registry.
BothEnqueuedBlind ==
    \A c \in Procs :
        /\ calls[c].pc \in {"returned", "saved"}
        /\ calls[c].ok
        /\ \A d \in Procs \ {c} : \A x \in calls[d].obj :
               x.job_id \notin get_job_ids(calls[c].reg)

\* The entries of the registry that instance o references by its job_id.
Referenced(o) == {e \in registry : e.id = o.job_id}

\* C18: when two schedule() invocations on the same eligible, unscheduled
\* record both evaluate is_scheduled() before either stores its job_id, both
\* enqueue: the registry holds two live entries of the one record, and a
\* job_id (of either caller's instance, or of the stored row once a caller
\* has saved) references only one of them.
C18_RaceDoubleEnqueue ==
    BothEnqueuedBlind =>
        /\ Cardinality(registry) = 2
        /\ \A c \in Procs : \A x \in calls[c].obj :
               Cardinality(Referenced(x)) = 1
        /\ \A x \in calls[1].obj, y \in calls[2].obj : x.job_id # y.job_id
        /\ \A o \in db : Cardinality(Referenced(o)) <= 1
        /\ (\E c \in Procs : calls[c].pc = "saved") =>
               \A o \in db : Cardinality(Referenced(o)) = 1

\* C18 witness: both callers have enqueued blind, one has saved, and the
\* registry holds two entries of which the stored job_id names one.
C18_Witness ==
    /\ BothEnqueuedBlind
    /\ \E c \in Procs : calls[c].pc = "saved"
    /\ Cardinality(registry) = 2
    /\ \E o \in db : Cardinality(Referenced(o)) = 1

\* The series has ended: nothing of the record is scheduled or pending.
SeriesEnded(o) ==
    /\ o.job_id = NoJobId
    /\ registry = {}
    /\ queue = {}
    /\ o.scheduled_time < now

\* C19 as stated, in what it says of the state the series ends in: the
\* record is Unscheduled with job_id = None, repeat = 0 and scheduled_time in
\* the past.
C19_Original ==
    \A o \in db :
        o.job_id = NoJobId => (o.repeat = 0 /\ o.scheduled_time < now)

\* C19, amended: for an enabled interval record with finite repeat R, first
\* scheduled with scheduled_time in the future and not edited afterwards,
\* whose runs each complete after their scheduled_time and are followed by
\* callback_save_job: the job is executed at most R + 1 times, and the record
\* eventually reaches and stays Unscheduled with job_id = None and
\* scheduled_time in the past; its repeat is then 0, or smaller than the
\* number of intervals the last run had missed.
C19_SeriesEnds ==
    /\ \A r \in 0..MaxRepeat :
           (\A o \in db : o.repeat = r) => [](runs <= r + 1)
    /\ <>[](\A o \in db :
               /\ SeriesEnded(o)
               /\ o.repeat = 0 \/ o.repeat < MissedIntervals(o, now))

\* C19 witness: a series with one repeat has run twice and ended with
\* repeat = 0.
C19_Witness ==
    /\ runs = 2
    /\ \E o \in db : SeriesEnded(o) /\ o.repeat = 0

\* C20: every enqueue_at call that schedule() makes for a fixed-instant or
\* interval record (called directly, by save(), by callback_save_job or by
\* the Bulk Rescheduler) adds one entry whose fire instant is not earlier
\* than the instant of the call; the instant is the record's scheduled_time,
\* which for an interval record is the one the catch-up advancement leaves.
C20_FireInstantNotPast ==
    last.op \in {"schedule", "save", "callback_save_job",
                 "reschedule_all_jobs", "ready"} =>
        \A p \in last.pre, x \in last.obj :
            p.kind # "CronJob" =>
                /\ Cardinality(registry \ last.reg) = last.enq
                /\ \A e \in registry \ last.reg :
                       /\ e.at >= now
                       /\ e.at = x.scheduled_time
                       /\ e.id = x.job_id
                       /\ p.kind = "ScheduledJob" => e.at = p.scheduled_time
                       /\ p.kind = "RepeatableJob" =>
                              e.at = IF p.scheduled_time < now
                                     THEN p.scheduled_time
                                          + MissedIntervals(p, now) * p.interval
                                     ELSE p.scheduled_time

\* C20 witness: schedule() has enqueued an interval record that was behind,
\* at the instant the catch-up advancement moved it to.
C20_Witness ==
    /\ last.op = "schedule"
    /\ last.enq = 1
    /\ \E p \in last.pre, e \in registry \ last.reg :
          /\ p.kind = "RepeatableJob"
          /\ p.scheduled_time < now
          /\ e.at > p.scheduled_time
          /\ e.at >= now

====
